---- MODULE Spec2Model ----
(***************************************************************************)
(* A model of the watch-classify-dispatch loop of file-backup:             *)
(* src/watchers/watcher.py (Watcher), src/utils/decorators.py (retry),     *)
(* src/strategies/*.py (the path strategies and the operations they        *)
(* inherit from FileHandlingStrategy).                                     *)
(*                                                                         *)
(* Spec is one Watcher with its two threads.  Three components are also    *)
(* modelled on their own, each with a specification of its own: one call   *)
(* through retry.wrapper (RetrySpec), FileHandler of                       *)
(* src/utils/file_handler.py (FileOpSpec) and the job loop of src/main.py  *)
(* (RunnerSpec).  ScanOnlySpec is the Watcher with the periodic scan as    *)
(* its only producer, under weak fairness for the scan thread.             *)
(*                                                                         *)
(* Text is modelled as a sequence of one-character strings, so that        *)
(* endswith, basename, splitext, lower and os.path.join are computed as    *)
(* the library computes them.                                              *)
(*                                                                         *)
(* Unbound names.  base_strategy.py calls shutil.* and logger.* and        *)
(* generic_strategy.py calls logger.* and build_folder_structure(), and    *)
(* neither module binds these names.  In the files as they stand each such *)
(* use raises NameError: that is the program with namesBound = FALSE.      *)
(* namesBound = TRUE is the same program with the names bound to what they *)
(* name (the standard shutil module, a logging logger, the folder helper), *)
(* kept so that the logic behind the NameError is checked as well.  Every  *)
(* confirmed property is checked for both.                                 *)
(***************************************************************************)
EXTENDS Integers, Sequences, FiniteSets, TLC

VARIABLES
    strategy,           \* Watcher.strategy: "photo" | "default"
    namesBound,         \* see "Unbound names" above
    file_types,         \* Watcher.file_types: a sequence of suffixes
    operation,          \* Watcher.operation
    wstate,             \* "Idle" | "Running" | "Stopped"
    processed_files,    \* Watcher.processed_files
    unsupported_files,  \* Watcher.unsupported_files
    drive,              \* os.path.exists(destination_folder)
    tree,               \* the watch folder: path -> "absent" | "dated" | "undated"
    pending,            \* creation events queued in the observer
    pc,                 \* thread -> position in the code
    ev,                 \* thread -> the event handle_file was called with
    attempt,            \* thread -> retry's loop variable
    dest_path,          \* thread -> handle_file's local dest_path
    opres,              \* thread -> what the last file operation of the call did
    scanTodo,           \* files of the current os.walk still to be visited
    execCount,          \* path -> number of execute_operation calls (saturating)
    wasProcessed,       \* thread -> the path was in processed_files when the call began
    ret,                \* thread -> how the handle_file call of the thread ended
    retryRun,           \* one call of a function wrapped by retry, alone
    fileOp,             \* FileHandler working on one source and one destination
    runner              \* main(): the job loop

\* the state of one Watcher and of the folder it watches
watcher == <<strategy, namesBound, file_types, operation, wstate, processed_files,
             unsupported_files, drive, tree, pending, pc, ev, attempt, dest_path,
             opres, scanTodo, execCount, wasProcessed, ret>>

vars == <<watcher, retryRun, fileOp, runner>>

\* the components a Watcher never touches while it runs
apart == <<retryRun, fileOp, runner>>

config == <<strategy, namesBound, file_types, operation>>

-----------------------------------------------------------------------------
(* Bounds *)

\* execCount saturates here
MaxExec == 2

-----------------------------------------------------------------------------
(* Text *)

SLASH == "/"
DOT == "."

\* str.endswith
endswith(s, suffix) ==
    /\ Len(suffix) <= Len(s)
    /\ SubSeq(s, Len(s) - Len(suffix) + 1, Len(s)) = suffix

\* index of the last occurrence of c in s, 0 when there is none (str.rfind + 1)
rfind(s, c) ==
    LET hits == {i \in 1..Len(s) : s[i] = c}
    IN  IF hits = {} THEN 0 ELSE CHOOSE i \in hits : \A j \in hits : j <= i

\* os.path.basename
basename(p) == SubSeq(p, rfind(p, SLASH) + 1, Len(p))

\* os.path.splitext(p)[1]: the last dot of the last component starts the
\* extension, unless only dots precede it in that component
splitext_ext(p) ==
    LET sepIndex == rfind(p, SLASH)
        dotIndex == rfind(p, DOT)
    IN  IF dotIndex > sepIndex
           /\ \E i \in (sepIndex + 1)..(dotIndex - 1) : p[i] # DOT
        THEN SubSeq(p, dotIndex, Len(p))
        ELSE <<>>

LowerChar(c) ==
    CASE c = "J" -> "j"
      [] c = "P" -> "p"
      [] c = "G" -> "g"
      [] OTHER -> c

\* str.lower
lower(s) == [i \in 1..Len(s) |-> LowerChar(s[i])]

\* os.path.join(a, b)
path_join(a, b) ==
    IF Len(b) > 0 /\ b[1] = SLASH THEN b
    ELSE IF a = <<>> \/ a[Len(a)] = SLASH THEN a \o b
    ELSE a \o <<SLASH>> \o b

SPACE == " "

-----------------------------------------------------------------------------
(* The files and the job configurations of the model *)

FILE_PHOTO == <<"w", "/", "a", ".", "J", "P", "G">>
FILE_TEXT == <<"w", "/", "b", ".", "t", "x", "t">>
DIR_SUB == <<"w", "/", "d">>

Files == {FILE_PHOTO, FILE_TEXT}

\* the files that come and go while the watcher runs; the others are in the
\* watch folder from the start, or never
Arriving == {FILE_PHOTO}

destination_folder == <<"/", "d", "e", "s", "t">>

\* FileSystemEvent: src_path and is_directory
Event(p, d) == [src_path |-> p, is_directory |-> d]
NoEvent == Event(<<>>, FALSE)
Events == {Event(f, FALSE) : f \in Files} \cup {Event(DIR_SUB, TRUE)}

FileTypeConfigs ==
    {<<>>, <<<<".", "J", "P", "G">>>>, <<<<".", "t", "x", "t">>>>}
Operations == {"copy", "move", "sync"}
Strategies == {"photo", "default"}

Threads == {"live", "scan"}

-----------------------------------------------------------------------------
(* retry (src/utils/decorators.py) *)

max_retries == 3
backoff_multiplier == 5

Raised == [kind |-> "raise", value |-> <<>>]
ReturnedNone == [kind |-> "none", value |-> <<>>]
Returned(v) == [kind |-> "value", value |-> v]

\* `if not x` for a result that is None or text
Falsy(r) == r.kind = "none" \/ r.value = <<>>

\* The wrapper applied to a function whose k-th call gives results[k]: the
\* first result that is not an exception, or None when max_retries calls raised.
retry_result(results) ==
    LET ok == {k \in 1..max_retries : results[k].kind # "raise"}
    IN  IF ok = {} THEN ReturnedNone
        ELSE results[CHOOSE k \in ok : \A j \in ok : k <= j]

\* the number of calls the wrapper makes
retry_calls(results) ==
    LET ok == {k \in 1..max_retries : results[k].kind # "raise"}
    IN  IF ok = {} THEN max_retries
        ELSE CHOOSE k \in ok : \A j \in ok : k <= j

-----------------------------------------------------------------------------
(* PhotoFileHandlingStrategy (src/strategies/photo_strategy.py) *)

metadata_extractors ==
    {<<".", "j", "p", "g">>, <<".", "j", "p", "e", "g">>, <<".", "p", "n", "g">>,
     <<".", "m", "p", "4">>, <<".", "m", "o", "v">>, <<".", "a", "v", "i">>}

\* EXIF tag 36867 of a file with a capture date: "2024:03:15 10:00:00"
DateTimeOriginal ==
    <<"2", "0", "2", "4", ":", "0", "3", ":", "1", "5", " ",
      "1", "0", ":", "0", "0", ":", "0", "0">>

\* strftime("%b") of the month whose strftime("%m") is mm
month_abbr(mm) ==
    CASE mm = <<"0", "1">> -> <<"J", "a", "n">>
      [] mm = <<"0", "2">> -> <<"F", "e", "b">>
      [] mm = <<"0", "3">> -> <<"M", "a", "r">>
      [] mm = <<"0", "4">> -> <<"A", "p", "r">>
      [] mm = <<"0", "5">> -> <<"M", "a", "y">>
      [] mm = <<"0", "6">> -> <<"J", "u", "n">>
      [] mm = <<"0", "7">> -> <<"J", "u", "l">>
      [] mm = <<"0", "8">> -> <<"A", "u", "g">>
      [] mm = <<"0", "9">> -> <<"S", "e", "p">>
      [] mm = <<"1", "0">> -> <<"O", "c", "t">>
      [] mm = <<"1", "1">> -> <<"N", "o", "v">>
      [] mm = <<"1", "2">> -> <<"D", "e", "c">>
      [] OTHER -> <<>>

\* _parse_exif_metadata: exif_data.get(36867), "%Y:%m:%d %H:%M:%S"
\* (exif is the tag's text, <<>> when the tag is missing)
parse_exif_metadata(exif) ==
    IF exif = <<>> THEN ReturnedNone
    ELSE IF Len(exif) # 19 \/ month_abbr(SubSeq(exif, 6, 7)) = <<>>
         THEN ReturnedNone           \* strptime raised, caught at line 101
    ELSE Returned([year |-> SubSeq(exif, 1, 4),
                   month_num |-> SubSeq(exif, 6, 7),
                   month_name |-> month_abbr(SubSeq(exif, 6, 7)),
                   day_number |-> SubSeq(exif, 9, 10)])

\* The body of _extract_exif_data / _extract_video_metadata on a file in state
\* fs: the decoder raises on a missing file (caught, None), gives no date for
\* an undated file and the capture date otherwise.
extract_body(fs) ==
    CASE fs = "absent" -> ReturnedNone
      [] fs = "undated" -> ReturnedNone
      [] OTHER -> parse_exif_metadata(DateTimeOriginal)

\* @retry on the extractors: the body is called again only when it raises
extract_metadata(fs) ==
    retry_result([k \in 1..max_retries |-> extract_body(fs)])

\* _build_folder_structure
photo_build_folder_structure(dest, m, filename) ==
    LET dest_folder == path_join(path_join(dest, m.year),
                           m.month_num \o <<SPACE>> \o m.month_name \o <<SPACE>> \o m.year)
        new_filename == m.year \o <<SPACE>> \o m.month_num \o <<SPACE>> \o m.day_number
                           \o <<SPACE>> \o filename
    IN  path_join(dest_folder, new_filename)

\* PhotoFileHandlingStrategy.build_destination_path
photo_build_destination_path(src_path, dest, fs) ==
    LET ext == lower(splitext_ext(src_path))
        metadata == extract_metadata(fs)
    IN  IF ext \notin metadata_extractors THEN ReturnedNone
        ELSE IF metadata.kind = "value"
             THEN Returned(photo_build_folder_structure(dest, metadata.value,
                                                        basename(src_path)))
        ELSE ReturnedNone            \* falls off the end of the function

-----------------------------------------------------------------------------
(* GenericFileHandlingStrategy (src/strategies/generic_strategy.py) *)

\* build_folder_structure(destination_folder, filename=...), the helper the
\* generic strategy calls
build_folder_structure(dest, filename) == path_join(dest, filename)

\* GenericFileHandlingStrategy.build_destination_path
generic_build_destination_path(src_path, dest, nb) ==
    IF nb THEN Returned(build_folder_structure(dest, basename(src_path)))
    ELSE Raised                      \* NameError, logged with an unbound logger

\* strategy.build_destination_path
build_destination_path(strat, src_path, dest, fs, nb) ==
    IF strat = "photo" THEN photo_build_destination_path(src_path, dest, fs)
    ELSE generic_build_destination_path(src_path, dest, nb)

-----------------------------------------------------------------------------
(* The file operations of FileHandlingStrategy (src/strategies/base_strategy.py) *)

\* What one operation call did: the change to the source tree, whether an
\* exception left the call, and whether the file reached the destination.
Outcome(e, r, x) == [effect |-> e, raises |-> r, res |-> x]

\* shutil.copy2 / shutil.move: a missing source always fails; otherwise the
\* call succeeds or fails (permissions, missing destination folder, full disk)
shutil_outcomes(present) == IF present THEN {"ok", "error"} ELSE {"error"}

\* FileHandlingStrategy.copy_file
copy_file(present, nb) ==
    IF ~nb THEN {Outcome("none", TRUE, "failed")}
    ELSE {Outcome(IF o = "ok" THEN "copied" ELSE "none", FALSE,
                  IF o = "ok" THEN "ok" ELSE "failed") : o \in shutil_outcomes(present)}

\* FileHandlingStrategy.move_file
base_move_file(present, nb) ==
    IF ~nb THEN {Outcome("none", TRUE, "failed")}
    ELSE {Outcome(IF o = "ok" THEN "moved" ELSE "none", FALSE,
                  IF o = "ok" THEN "ok" ELSE "failed") : o \in shutil_outcomes(present)}

\* GenericFileHandlingStrategy.move_file: shutil is imported there, logger is not
generic_move_file(present, nb) ==
    {Outcome(IF o = "ok" THEN "moved" ELSE "none", ~nb,
             IF o = "ok" THEN "ok" ELSE "failed") : o \in shutil_outcomes(present)}

move_file(strat, present, nb) ==
    IF strat = "default" THEN generic_move_file(present, nb)
    ELSE base_move_file(present, nb)

\* FileHandlingStrategy.execute_operation
execute_operation(strat, op, present, nb) ==
    CASE op = "move" -> move_file(strat, present, nb)
      [] op = "copy" -> copy_file(present, nb)
      [] OTHER -> {Outcome("none", ~nb, "unsupported")}

-----------------------------------------------------------------------------
(* Watcher (src/watchers/watcher.py) *)

FileStates(f) ==
    IF lower(splitext_ext(f)) \in metadata_extractors
    THEN {"absent", "dated", "undated"}
    ELSE {"absent", "undated"}

\* variant: the existence check is skipped
drive_assumed_connected == TRUE

\* Watcher.is_drive_connected
is_drive_connected == drive

\* `any(file_path.endswith(ext) for ext in self.file_types)`
any_endswith(name) == \E i \in 1..Len(file_types) : endswith(name, file_types[i])

\* variant: the filter of line 62 is left out
rejected_by_nothing(file_path) == FALSE

\* the filter of handle_file (line 62): TRUE when the file is rejected
rejected_by_filter(file_path) == Len(file_types) > 0 /\ ~any_endswith(file_path)

\* variant: the test of line 131 is inverted for good and lets nothing through
scan_accepts_none(file_path) == FALSE

\* variant: the scan hands every file it lists to handle_file
scan_accepts_all(file_path) == TRUE

\* the filter of the periodic scan (line 131), on the bare file name
scan_filter(file_path) == Len(file_types) = 0 \/ any_endswith(basename(file_path))

\* variant: the set is assigned anew instead of added to
set_assign(s, x) == {x}

\* set.add, lines 64, 80 and 89
set_add(s, x) == s \cup {x}

\* the negative cache, lines 58 and 129
in_unsupported(file_path) == file_path \in unsupported_files

\* variant: the guard is left out
never_processed(file_path) == FALSE

\* the idempotence guard, lines 83 and 132
already_processed(file_path) == file_path \in processed_files

\* variant: the wrapper raises the last exception again when it gives up
after_exhaustion_reraise == "raise"

\* what the retry wrapper does when its loop is exhausted (decorators.py line
\* 18): it logs and falls off the end, so the caller gets None
after_exhaustion == "return"

Inc(n) == IF n < MaxExec THEN n + 1 ELSE n

\* where a thread goes when handle_file returns to its caller
AfterReturn(t) == IF t = "live" THEN "idle" ELSE "scan_loop"

\* handle_file (through the retry wrapper) returns to its caller: the thread is
\* back in on_created (line 118) or in the scan loop (line 133)
Return(t, how) ==
    /\ pc' = [pc EXCEPT ![t] = "hf_return"]
    /\ ret' = [ret EXCEPT ![t] = how]
    /\ attempt' = [attempt EXCEPT ![t] = 0]
    /\ dest_path' = [dest_path EXCEPT ![t] = <<>>]
    /\ UNCHANGED scanTodo

\* An exception leaves handle_file: it ends the observer's callback, and in the
\* scan thread the handler of line 134 abandons the walk.
Escape(t) ==
    /\ pc' = [pc EXCEPT ![t] = IF t = "live" THEN "dead" ELSE "scan_sleep"]
    /\ scanTodo' = IF t = "scan" THEN {} ELSE scanTodo
    /\ ret' = [ret EXCEPT ![t] = "raised"]
    /\ attempt' = [attempt EXCEPT ![t] = 0]
    /\ dest_path' = [dest_path EXCEPT ![t] = <<>>]

Goto(t, label) ==
    /\ pc' = [pc EXCEPT ![t] = label]
    /\ UNCHANGED <<ret, scanTodo>>

\* a step of handle_file that leaves the retry counter and dest_path alone
Step(t, label) == Goto(t, label) /\ UNCHANGED <<attempt, dest_path>>

\* retry, FileHandler and main() are modelled on their own further down: while
\* the Watcher runs they stay as they are here
RetryAtRest == [pos |-> "rest"]
FileOpAtRest == [pos |-> "rest"]
RunnerAtRest == [pos |-> "rest"]

Init ==
    /\ strategy \in Strategies
    /\ namesBound \in BOOLEAN
    /\ file_types \in FileTypeConfigs
    /\ operation \in Operations
    /\ wstate = "Idle"
    /\ processed_files = {}
    /\ unsupported_files = {}
    /\ drive \in BOOLEAN
    /\ tree \in {g \in [Files -> {"absent", "dated", "undated"}] :
                    \A f \in Files : g[f] \in FileStates(f)}
    /\ pending = {}
    /\ pc = [t \in Threads |-> IF t = "live" THEN "idle" ELSE "unstarted"]
    /\ ev = [t \in Threads |-> NoEvent]
    /\ attempt = [t \in Threads |-> 0]
    /\ dest_path = [t \in Threads |-> <<>>]
    /\ opres = [t \in Threads |-> "none"]
    /\ scanTodo = {}
    /\ execCount = [f \in Files |-> 0]
    /\ wasProcessed = [t \in Threads |-> FALSE]
    /\ ret = [t \in Threads |-> "none"]
    /\ retryRun = RetryAtRest
    /\ fileOp = FileOpAtRest
    /\ runner = RunnerAtRest

(* The environment *)

\* A file appears in the watch folder.  A running observer queues its creation
\* event, or misses it.
CreateFile(f, s, seen) ==
    /\ f \in Arriving
    /\ tree[f] = "absent"
    /\ s \in FileStates(f) \ {"absent"}
    /\ tree' = [tree EXCEPT ![f] = s]
    /\ pending' = IF seen /\ wstate = "Running"
                  THEN pending \cup {Event(f, FALSE)} ELSE pending
    /\ UNCHANGED <<config, apart, wstate, processed_files, unsupported_files, drive, pc, ev,
                   attempt, dest_path, opres, scanTodo, execCount, wasProcessed,
                   ret>>

\* A file is removed from the watch folder by its owner
DeleteFile(f) ==
    /\ f \in Arriving
    /\ tree[f] # "absent"
    /\ tree' = [tree EXCEPT ![f] = "absent"]
    /\ UNCHANGED <<config, apart, wstate, processed_files, unsupported_files, drive, pending,
                   pc, ev, attempt, dest_path, opres, scanTodo, execCount,
                   wasProcessed, ret>>

\* The destination drive is plugged in or removed
DriveChange ==
    /\ drive' = ~drive
    /\ UNCHANGED <<config, apart, wstate, processed_files, unsupported_files, tree, pending,
                   pc, ev, attempt, dest_path, opres, scanTodo, execCount,
                   wasProcessed, ret>>

(* The lifecycle *)

\* Watcher.start_watching
start_watching ==
    /\ wstate = "Idle"
    /\ wstate' = "Running"
    /\ pc' = [pc EXCEPT !["scan"] = "scan_walk"]
    /\ UNCHANGED <<config, apart, processed_files, unsupported_files, drive, tree, pending,
                   ev, attempt, dest_path, opres, scanTodo, execCount, wasProcessed,
                   ret>>

\* Watcher.stop_watching: observer.stop() drops the queue; join() waits for the
\* callback in flight.  Nothing is said to the scan thread.
stop_watching ==
    /\ wstate = "Running"
    /\ wstate' = "Stopped"
    /\ pending' = {}
    /\ UNCHANGED <<config, apart, processed_files, unsupported_files, drive, tree, pc, ev,
                   attempt, dest_path, opres, scanTodo, execCount, wasProcessed,
                   ret>>

(* The two producers *)

\* Watcher.on_created, called by the observer thread with a queued event, or
\* with the event of a directory that has just been created
on_created(e) ==
    /\ wstate = "Running"
    /\ pc["live"] = "idle"
    /\ e \in pending \/ e.is_directory
    /\ pending' = pending \ {e}
    /\ pc' = [pc EXCEPT !["live"] = "hf_entry"]
    /\ ev' = [ev EXCEPT !["live"] = e]
    /\ wasProcessed' = [wasProcessed EXCEPT !["live"] = e.src_path \in processed_files]
    /\ UNCHANGED <<config, apart, wstate, processed_files, unsupported_files, drive, tree,
                   attempt, dest_path, opres, scanTodo, execCount, ret>>

\* scan_folder_periodically, line 125: os.walk lists the watch folder
ScanWalk ==
    /\ pc["scan"] = "scan_walk"
    /\ scanTodo' = {f \in Files : tree[f] # "absent"}
    /\ pc' = [pc EXCEPT !["scan"] = "scan_loop"]
    /\ UNCHANGED <<config, apart, wstate, processed_files, unsupported_files, drive, tree,
                   pending, ev, attempt, dest_path, opres, execCount, wasProcessed,
                   ret>>

\* lines 126-133: the next file of the walk
ScanFile(f) ==
    /\ pc["scan"] = "scan_loop"
    /\ f \in scanTodo
    /\ scanTodo' = scanTodo \ {f}
    /\ IF ~in_unsupported(f) /\ scan_filter(f) /\ ~already_processed(f)
       THEN /\ pc' = [pc EXCEPT !["scan"] = "hf_entry"]
            /\ ev' = [ev EXCEPT !["scan"] = Event(f, FALSE)]
            /\ wasProcessed' = [wasProcessed EXCEPT !["scan"] = f \in processed_files]
       ELSE UNCHANGED <<pc, ev, wasProcessed>>
    /\ UNCHANGED <<config, apart, wstate, processed_files, unsupported_files, drive, tree,
                   pending, attempt, dest_path, opres, execCount, ret>>

\* the walk is exhausted: line 137, time.sleep(scan_interval)
ScanSleep ==
    /\ pc["scan"] = "scan_loop"
    /\ scanTodo = {}
    /\ pc' = [pc EXCEPT !["scan"] = "scan_sleep"]
    /\ UNCHANGED <<config, apart, wstate, processed_files, unsupported_files, drive, tree,
                   pending, ev, attempt, dest_path, opres, scanTodo, execCount,
                   wasProcessed, ret>>

\* the sleep ends: `while True` starts the next cycle
ScanWake ==
    /\ pc["scan"] = "scan_sleep"
    /\ pc' = [pc EXCEPT !["scan"] = "scan_walk"]
    /\ UNCHANGED <<config, apart, wstate, processed_files, unsupported_files, drive, tree,
                   pending, ev, attempt, dest_path, opres, scanTodo, execCount,
                   wasProcessed, ret>>

(* handle_file, one step per access to shared state *)

\* lines 48-66: directory, negative cache, extension filter
HandleEntry(t) ==
    /\ pc[t] = "hf_entry"
    /\ LET file_path == ev[t].src_path
       IN  IF ev[t].is_directory
           THEN Return(t, "directory") /\ UNCHANGED unsupported_files
           ELSE IF in_unsupported(file_path)
           THEN Return(t, "cached") /\ UNCHANGED unsupported_files
           ELSE IF rejected_by_filter(file_path)
           THEN /\ unsupported_files' = set_add(unsupported_files, file_path)
                /\ Return(t, "filtered")
           ELSE Step(t, "hf_drive") /\ UNCHANGED unsupported_files
    /\ UNCHANGED <<config, apart, wstate, processed_files, drive, tree, pending, ev, opres,
                   execCount, wasProcessed>>

\* lines 70-72
HandleDrive(t) ==
    /\ pc[t] = "hf_drive"
    /\ IF ~is_drive_connected THEN Return(t, "nodrive") ELSE Step(t, "hf_build")
    /\ UNCHANGED <<config, apart, wstate, processed_files, unsupported_files, drive, tree,
                   pending, ev, opres, execCount, wasProcessed>>

\* lines 75-81
HandleBuild(t) ==
    /\ pc[t] = "hf_build"
    /\ LET file_path == ev[t].src_path
           r == build_destination_path(strategy, file_path, destination_folder,
                                       tree[file_path], namesBound)
       IN  IF r.kind = "raise"
           THEN /\ Step(t, "hf_raise")
                /\ UNCHANGED unsupported_files
           ELSE IF Falsy(r)
           THEN /\ unsupported_files' = set_add(unsupported_files, file_path)
                /\ Return(t, "nopath")
           ELSE /\ Goto(t, "hf_dedup")
                /\ dest_path' = [dest_path EXCEPT ![t] = r.value]
                /\ UNCHANGED <<unsupported_files, attempt>>
    /\ UNCHANGED <<config, apart, wstate, processed_files, drive, tree, pending, ev, opres,
                   execCount, wasProcessed>>

\* lines 83-85
HandleDedup(t) ==
    /\ pc[t] = "hf_dedup"
    /\ IF already_processed(ev[t].src_path)
       THEN Return(t, "duplicate")
       ELSE Step(t, "hf_exec")
    /\ UNCHANGED <<config, apart, wstate, processed_files, unsupported_files, drive, tree,
                   pending, ev, opres, execCount, wasProcessed>>

\* line 88
HandleExec(t) ==
    /\ pc[t] = "hf_exec"
    /\ LET file_path == ev[t].src_path
       IN  \E o \in execute_operation(strategy, operation,
                                      tree[file_path] # "absent", namesBound) :
              /\ execCount' = [execCount EXCEPT ![file_path] = Inc(@)]
              /\ tree' = IF o.effect = "moved"
                         THEN [tree EXCEPT ![file_path] = "absent"] ELSE tree
              /\ opres' = [opres EXCEPT ![t] = o.res]
              /\ Step(t, IF o.raises THEN "hf_raise" ELSE "hf_mark")
    /\ UNCHANGED <<config, apart, wstate, processed_files, unsupported_files, drive, pending,
                   ev, wasProcessed>>

\* line 89
HandleMark(t) ==
    /\ pc[t] = "hf_mark"
    /\ processed_files' = set_add(processed_files, ev[t].src_path)
    /\ Return(t, "marked")
    /\ UNCHANGED <<config, apart, wstate, unsupported_files, drive, tree, pending, ev, opres,
                   execCount, wasProcessed>>

\* An exception left handle_file's body (lines 91-98 log it and raise again):
\* retry's handler, decorators.py lines 15-18, sleeps and loops.  opres keeps
\* what the failed attempt's operation did.
RetryCatch(t) ==
    /\ pc[t] = "hf_raise"
    /\ IF attempt[t] + 1 < max_retries
       THEN /\ Goto(t, "hf_entry")
            /\ attempt' = [attempt EXCEPT ![t] = @ + 1]
            /\ dest_path' = [dest_path EXCEPT ![t] = <<>>]
       ELSE IF after_exhaustion = "return" THEN Return(t, "exhausted") ELSE Escape(t)
    /\ UNCHANGED <<config, apart, wstate, processed_files, unsupported_files, drive, tree,
                   pending, ev, opres, execCount, wasProcessed>>

\* The caller goes on after handle_file returned: on_created returns to the
\* observer, the scan loop takes the next file.  The call's locals are gone.
Resume(t) ==
    /\ pc[t] = "hf_return"
    /\ pc' = [pc EXCEPT ![t] = AfterReturn(t)]
    /\ ev' = [ev EXCEPT ![t] = NoEvent]
    /\ opres' = [opres EXCEPT ![t] = "none"]
    /\ wasProcessed' = [wasProcessed EXCEPT ![t] = FALSE]
    /\ ret' = [ret EXCEPT ![t] = "none"]
    /\ UNCHANGED <<config, apart, wstate, processed_files, unsupported_files, drive, tree,
                   pending, attempt, dest_path, scanTodo, execCount>>

Next ==
    \/ \E f \in Files, s \in {"dated", "undated"}, seen \in BOOLEAN : CreateFile(f, s, seen)
    \/ \E f \in Files : DeleteFile(f)
    \/ DriveChange
    \/ start_watching
    \/ stop_watching
    \/ \E e \in Events : on_created(e)
    \/ ScanWalk
    \/ \E f \in Files : ScanFile(f)
    \/ ScanSleep
    \/ ScanWake
    \/ \E t \in Threads : HandleEntry(t)
    \/ \E t \in Threads : HandleDrive(t)
    \/ \E t \in Threads : HandleBuild(t)
    \/ \E t \in Threads : HandleDedup(t)
    \/ \E t \in Threads : HandleExec(t)
    \/ \E t \in Threads : HandleMark(t)
    \/ \E t \in Threads : RetryCatch(t)
    \/ \E t \in Threads : Resume(t)

Spec == Init /\ [][Next]_vars

-----------------------------------------------------------------------------
(* The other components, each on its own.  The Watcher stays as constructed. *)

WatcherAtRest ==
    /\ strategy = "photo"
    /\ namesBound = FALSE
    /\ file_types = <<>>
    /\ operation = "copy"
    /\ wstate = "Idle"
    /\ processed_files = {}
    /\ unsupported_files = {}
    /\ drive = TRUE
    /\ tree = [f \in Files |-> "absent"]
    /\ pending = {}
    /\ pc = [t \in Threads |-> IF t = "live" THEN "idle" ELSE "unstarted"]
    /\ ev = [t \in Threads |-> NoEvent]
    /\ attempt = [t \in Threads |-> 0]
    /\ dest_path = [t \in Threads |-> <<>>]
    /\ opres = [t \in Threads |-> "none"]
    /\ scanTodo = {}
    /\ execCount = [f \in Files |-> 0]
    /\ wasProcessed = [t \in Threads |-> FALSE]
    /\ ret = [t \in Threads |-> "none"]

-----------------------------------------------------------------------------
(* retry.wrapper, statement by statement (src/utils/decorators.py) *)

RECURSIVE pow(_, _)
\* backoff_multiplier ** attempt
pow(b, e) == IF e = 0 THEN 1 ELSE b * pow(b, e - 1)

\* what a call of the wrapped function can do
CallOutcomes == {Raised, ReturnedNone, Returned(<<>>), Returned(<<"v">>)}

\* what the image or video decoder meets at a call: "absent" makes it raise
DecoderStates == {"absent", "undated", "dated"}

NotReturned == [kind |-> "pending", value |-> <<>>]

\* wrapper(self, *args) is entered: lines 10-11.  The wrapped function is an
\* arbitrary one ("plain"), or one of the two extractors of photo_strategy.py,
\* whose body is extract_body.
RetryInit ==
    /\ WatcherAtRest
    /\ fileOp = FileOpAtRest
    /\ runner = RunnerAtRest
    /\ \E w \in {"plain", "extractor"} :
       \E d \in [1..max_retries -> DecoderStates] :
       \E r \in [1..max_retries -> CallOutcomes] :
          /\ w = "plain" => d = [k \in 1..max_retries |-> "dated"]
          /\ w = "extractor" => r = [k \in 1..max_retries |-> ReturnedNone]
          /\ retryRun = [pos |-> "call", wrapped |-> w, decoder |-> d,
                         results |-> IF w = "plain" THEN r
                                     ELSE [k \in 1..max_retries |-> extract_body(d[k])],
                         attempt |-> 0, calls |-> 0, slept |-> <<>>,
                         out |-> NotReturned, exhausted |-> FALSE]

\* lines 13-15: the next attempt; a result that is not an exception is returned
RetryAttempt ==
    /\ retryRun.pos = "call"
    /\ LET r == retryRun.results[retryRun.attempt + 1]
       IN  retryRun' = IF r.kind = "raise"
                       THEN [retryRun EXCEPT !.calls = @ + 1, !.pos = "caught"]
                       ELSE [retryRun EXCEPT !.calls = @ + 1, !.pos = "done", !.out = r]
    /\ UNCHANGED <<watcher, fileOp, runner>>

\* lines 16-18: the handler logs and sleeps, then `for` takes the next attempt
\* or ends
RetrySleep ==
    /\ retryRun.pos = "caught"
    /\ retryRun' = [retryRun EXCEPT
                      !.slept = Append(@, pow(backoff_multiplier, retryRun.attempt)),
                      !.attempt = @ + 1,
                      !.pos = IF retryRun.attempt + 1 < max_retries
                              THEN "call" ELSE "giveup"]
    /\ UNCHANGED <<watcher, fileOp, runner>>

\* line 19 and the end of wrapper
RetryGiveUp ==
    /\ retryRun.pos = "giveup"
    /\ retryRun' = [retryRun EXCEPT
                      !.pos = "done", !.exhausted = TRUE,
                      !.out = IF after_exhaustion = "return" THEN ReturnedNone
                              ELSE Raised]
    /\ UNCHANGED <<watcher, fileOp, runner>>

RetryNext == RetryAttempt \/ RetrySleep \/ RetryGiveUp

RetrySpec == RetryInit /\ [][RetryNext]_vars

-----------------------------------------------------------------------------
(* FileHandler (src/utils/file_handler.py) on one source and one destination *)

\* calls of execute_operation in one run
MaxCalls == 3

\* what a file holds; "partial" is what an interrupted copy leaves behind
Contents == {"c1", "c2"}
SrcStates == {"absent"} \cup Contents
DstStates == {"absent", "partial"} \cup Contents

\* the operation kinds a caller may pass; "delete" is not one FileHandler knows
Kinds == {"move", "copy", "sync", "delete"}

\* calculate_file_hash: the digest of the content, or the exception of open()
calculate_file_hash(c) ==
    IF c = "absent" THEN Raised ELSE Returned(<<"sha256", c>>)

\* variant: every file counts as modified
always_modified(src, dst) == Returned(<<TRUE>>)

\* is_file_modified: <<TRUE>>, <<FALSE>>, or the exception of a hash
is_file_modified(src, dst) ==
    IF dst = "absent" THEN Returned(<<TRUE>>)
    ELSE IF calculate_file_hash(src).kind = "raise" THEN Raised
    ELSE Returned(<<calculate_file_hash(src).value # calculate_file_hash(dst).value>>)

\* What one call does: the files afterwards, whether the destination was
\* written, and whether an exception leaves the call.
Done(s, d, w, r) == [src |-> s, dst |-> d, wrote |-> w, raises |-> r]

\* FileHandler.copy_file: shutil.copy2 copies, fails before it opens the
\* destination, or fails half way; the exception is logged and raised again
FileHandler_copy_file(src, dst) ==
    IF src = "absent" THEN {Done(src, dst, FALSE, TRUE)}
    ELSE {Done(src, src, TRUE, FALSE), Done(src, dst, FALSE, TRUE),
          Done(src, "partial", TRUE, TRUE)}

\* FileHandler.move_file
FileHandler_move_file(src, dst) ==
    IF src = "absent" THEN {Done(src, dst, FALSE, TRUE)}
    ELSE {Done("absent", src, TRUE, FALSE), Done(src, dst, FALSE, TRUE),
          Done(src, "partial", TRUE, TRUE)}

\* FileHandler.sync_file
FileHandler_sync_file(src, dst) ==
    LET m == is_file_modified(src, dst)
    IN  IF m.kind = "raise" THEN {Done(src, dst, FALSE, TRUE)}
        ELSE IF m.value[1] THEN FileHandler_copy_file(src, dst)
        ELSE {Done(src, dst, FALSE, FALSE)}

\* FileHandler.execute_operation: ValueError for a kind outside the table
FileHandler_execute_operation(kind, src, dst) ==
    CASE kind = "move" -> FileHandler_move_file(src, dst)
      [] kind = "copy" -> FileHandler_copy_file(src, dst)
      [] kind = "sync" -> FileHandler_sync_file(src, dst)
      [] OTHER -> {Done(src, dst, FALSE, TRUE)}

FileOpInit ==
    /\ WatcherAtRest
    /\ retryRun = RetryAtRest
    /\ runner = RunnerAtRest
    /\ \E s \in SrcStates, d \in DstStates :
          fileOp = [pos |-> "ready", src |-> s, dst |-> d, calls |-> 0, writes |-> 0,
                    kind |-> "none", raised |-> FALSE, streak |-> 0]

\* One call of FileHandler.execute_operation.  streak counts the sync calls
\* that returned one after the other with nothing else touching the two files.
Execute(kind) ==
    /\ fileOp.pos = "ready"
    /\ fileOp.calls < MaxCalls
    /\ \E o \in FileHandler_execute_operation(kind, fileOp.src, fileOp.dst) :
          fileOp' = [fileOp EXCEPT
                       !.src = o.src, !.dst = o.dst, !.calls = @ + 1,
                       !.writes = IF o.wrote THEN @ + 1 ELSE @,
                       !.kind = kind, !.raised = o.raises,
                       !.streak = IF kind = "sync" /\ ~o.raises
                                  THEN (IF @ < 2 THEN @ + 1 ELSE @) ELSE 0]
    /\ UNCHANGED <<watcher, retryRun, runner>>

\* the owner of the source edits, creates or deletes it
ModifySource(c) ==
    /\ fileOp.pos = "ready"
    /\ c # fileOp.src
    /\ fileOp' = [fileOp EXCEPT !.src = c, !.streak = 0]
    /\ UNCHANGED <<watcher, retryRun, runner>>

\* something else changes or removes the destination
ModifyDestination(c) ==
    /\ fileOp.pos = "ready"
    /\ c # fileOp.dst
    /\ fileOp' = [fileOp EXCEPT !.dst = c, !.streak = 0]
    /\ UNCHANGED <<watcher, retryRun, runner>>

FileOpNext ==
    \/ \E kind \in Kinds : Execute(kind)
    \/ \E c \in SrcStates : ModifySource(c)
    \/ \E c \in DstStates : ModifyDestination(c)

FileOpSpec == FileOpInit /\ [][FileOpNext]_vars

-----------------------------------------------------------------------------
(* main(): the job loop (src/main.py) *)

\* jobs in the configuration file
MaxJobs == 2

\* Watcher.__init__'s defaults for the two parameters main() does not pass
default_operation == "copy"
default_scan_interval == 60

\* The jobs of a configuration file.  "" stands for a key that is missing or
\* empty; "bogus" is a strategy name nothing registered.
Jobs ==
    [watch_folder : {"", "w"}, destination_folder : {"", "d"},
     strategy : {"photo", "default", "bogus"}, operation : {"copy", "move"},
     scan_interval : {default_scan_interval, 5 * default_scan_interval}]

\* a configuration file: up to MaxJobs jobs
JobLists == UNION {[1..n -> Jobs] : n \in 0..MaxJobs}

\* StrategyFactory.create(strategy_name): the strategy registered under the
\* name by @StrategyFactory.register, or nothing
StrategyFactory_create(name) ==
    IF name \in {"photo", "default"} THEN Returned(<<name>>) ELSE ReturnedNone

\* line 46
fields_missing(job) == job.watch_folder = "" \/ job.destination_folder = ""

\* variant: the first job that is not usable ends main()
after_skipped_job_return == "return"

\* lines 48 and 56: `continue`
after_skipped_job == "continue"

\* nothing was started for the job
Skipped(i) ==
    [job |-> i, made |-> FALSE, observing |-> FALSE, scanning |-> FALSE,
     operation |-> "none", scan_interval |-> 0, strategy |-> "none"]

\* lines 60-68: Watcher(watch_folder, destination_folder, file_types,
\* strategy_instance) on an Observer of main()'s own, scheduled and started.
\* Watcher.start_watching is not called, so no scan thread exists.
Watching(i, strat) ==
    [job |-> i, made |-> TRUE, observing |-> TRUE, scanning |-> FALSE,
     operation |-> default_operation, scan_interval |-> default_scan_interval,
     strategy |-> strat]

RunnerInit ==
    /\ WatcherAtRest
    /\ retryRun = RetryAtRest
    /\ fileOp = FileOpAtRest
    /\ \E js \in JobLists : runner = [pos |-> "load", jobs |-> js, i |-> 1, started |-> <<>>]

\* lines 27-38
MainLoad ==
    /\ runner.pos = "load"
    /\ runner' = [runner EXCEPT !.pos = IF runner.jobs = <<>> THEN "exited" ELSE "loop"]
    /\ UNCHANGED <<watcher, retryRun, fileOp>>

\* lines 39-68: one turn of the loop
MainJob ==
    /\ runner.pos = "loop"
    /\ runner.i <= Len(runner.jobs)
    /\ LET job == runner.jobs[runner.i]
           strategy_instance == StrategyFactory_create(job.strategy)
           skip == fields_missing(job) \/ strategy_instance.kind = "none"
       IN  runner' = [runner EXCEPT
                        !.i = @ + 1,
                        !.started = Append(@, IF skip THEN Skipped(runner.i)
                                              ELSE Watching(runner.i, job.strategy)),
                        !.pos = IF skip /\ after_skipped_job = "return"
                                THEN "exited" ELSE "loop"]
    /\ UNCHANGED <<watcher, retryRun, fileOp>>

\* lines 70-72: the loop is over, main() sleeps second by second
MainServe ==
    /\ runner.pos = "loop"
    /\ runner.i > Len(runner.jobs)
    /\ runner' = [runner EXCEPT !.pos = "serve"]
    /\ UNCHANGED <<watcher, retryRun, fileOp>>

\* lines 73-77: KeyboardInterrupt stops and joins every observer
MainInterrupt ==
    /\ runner.pos = "serve"
    /\ runner' = [runner EXCEPT
                    !.pos = "drained",
                    !.started = [k \in DOMAIN runner.started |->
                                    [runner.started[k] EXCEPT !.observing = FALSE]]]
    /\ UNCHANGED <<watcher, retryRun, fileOp>>

RunnerNext == MainLoad \/ MainJob \/ MainServe \/ MainInterrupt

RunnerSpec == RunnerInit /\ [][RunnerNext]_vars

-----------------------------------------------------------------------------
(* The periodic scan on its own: no creation event is ever delivered, no file
   is taken away, and the scan thread keeps being scheduled. *)

\* a step of the scan thread
ScanThread ==
    \/ ScanWalk
    \/ \E f \in Files : ScanFile(f)
    \/ ScanSleep
    \/ ScanWake
    \/ HandleEntry("scan")
    \/ HandleDrive("scan")
    \/ HandleBuild("scan")
    \/ HandleDedup("scan")
    \/ HandleExec("scan")
    \/ HandleMark("scan")
    \/ RetryCatch("scan")
    \/ Resume("scan")

\* a file arrives and the observer misses it
MissedFile == \E f \in Files, s \in {"dated", "undated"} : CreateFile(f, s, FALSE)

ScanOnlyNext ==
    \/ start_watching
    \/ MissedFile
    \/ DriveChange
    \/ ScanThread

\* The scan thread is a thread of its own (line 107): the interpreter keeps
\* scheduling it, and time.sleep returns.
ScanOnlySpec == Init /\ [][ScanOnlyNext]_vars /\ WF_vars(ScanThread)

-----------------------------------------------------------------------------
(* Properties *)

PathOf(t) == ev[t].src_path

\* thread t is inside handle_file for a file
HandlingFile(t) == PathOf(t) \in Files /\ ~ev[t].is_directory

\* the step is taken by thread t
StepOf(t) == pc'[t] # pc[t]

C2_SecondCallNoOp ==
    [][\A t \in Threads :
          (wasProcessed[t] /\ StepOf(t)) =>
              /\ execCount' = execCount
              /\ tree' = tree
              /\ pc'[t] \notin {"hf_exec", "hf_mark"}]_vars

\* a second call has come back from the guard of line 83, the executor having
\* been invoked once for the path
C2_Witness ==
    \E t \in Threads :
        /\ wasProcessed[t]
        /\ pc[t] = "hf_return"
        /\ ret[t] = "duplicate"
        /\ execCount[PathOf(t)] = 1

\* the extension of f (os.path.splitext) is not in a non-empty allow-list
ExtensionOutside(f) ==
    /\ Len(file_types) > 0
    /\ \A i \in 1..Len(file_types) : file_types[i] # splitext_ext(f)

\* C3: for a file whose extension is outside a non-empty allow-list the executor
\* is never invoked, and whenever a handle_file call for it has returned the
\* path is in unsupported_files.
C3_FilteredNeverExecuted ==
    \A f \in Files :
        ExtensionOutside(f) =>
            /\ execCount[f] = 0
            /\ \A t \in Threads :
                  (pc[t] = "hf_return" /\ HandlingFile(t) /\ PathOf(t) = f)
                      => f \in unsupported_files

\* a later call for such a file has come back from the negative cache
C3_Witness ==
    \E t \in Threads :
        /\ pc[t] = "hf_return"
        /\ HandlingFile(t)
        /\ ExtensionOutside(PathOf(t))
        /\ ret[t] = "cached"
        /\ PathOf(t) \in unsupported_files
        /\ execCount[PathOf(t)] = 0

\* C4: with the destination root missing, the drive check of handle_file
\* returns at once: neither set changes, and neither the strategy nor the
\* executor is invoked.
C4_DriveMissingNoChange ==
    [][\A t \in Threads :
          (pc[t] = "hf_drive" /\ ~drive /\ StepOf(t)) =>
              /\ pc'[t] = "hf_return"
              /\ processed_files' = processed_files
              /\ unsupported_files' = unsupported_files
              /\ execCount' = execCount
              /\ tree' = tree]_vars

\* a call has returned at the drive check and its path is in neither set
C4_Witness ==
    \E t \in Threads :
        /\ pc[t] = "hf_return"
        /\ ret[t] = "nodrive"
        /\ HandlingFile(t)
        /\ PathOf(t) \notin processed_files
        /\ PathOf(t) \notin unsupported_files

\* C5: under the photo strategy a file with a supported extension and no
\* capture date gets a destination path (the "Unknown" folder): handle_file
\* does not come back from line 81 for it.
C5_UndatedPhotoHasPath ==
    strategy = "photo" =>
        \A t \in Threads :
            (/\ pc[t] = "hf_return"
             /\ HandlingFile(t)
             /\ lower(splitext_ext(PathOf(t))) \in metadata_extractors
             /\ tree[PathOf(t)] = "undated")
                => ret[t] # "nopath"

C7_FailedStaysUnmarked ==
    \A t \in Threads :
        (pc[t] = "hf_return" /\ opres[t] \in {"failed", "unsupported"}) =>
            /\ PathOf(t) \notin processed_files
            /\ PathOf(t) \notin unsupported_files

\* C8: build_destination_path is never invoked for a path that is in
\* unsupported_files.
C8_UnsupportedNeverRebuilt ==
    [][\A t \in Threads :
          (pc[t] = "hf_build" /\ StepOf(t)) => PathOf(t) \notin unsupported_files]_vars

\* C9: no exception leaves handle_file: the observer's callback is never ended
\* by one and the scan loop never abandons a walk because of one.
C9_FailuresContained ==
    \A t \in Threads : pc[t] # "dead" /\ ret[t] # "raised"

\* both producers have come back from a call that failed three times, and the
\* scan has another file of its walk to go on with
C9_Witness ==
    /\ \A t \in Threads : pc[t] = "hf_return" /\ ret[t] = "exhausted"
    /\ scanTodo # {}

\* C10: after stop_watching no new scan cycle begins: the scan loop does not
\* go round again when its sleep ends.
C10_NoScanAfterStop ==
    [][wstate = "Stopped" =>
          ~(pc["scan"] = "scan_sleep" /\ pc'["scan"] = "scan_walk")]_vars

\* the step is a call execute_operation("sync", src, dest)
SyncCall == fileOp'.calls = fileOp.calls + 1 /\ fileOp'.kind = "sync"

\* C11: sync is idempotent on writes.  A sync call that returns after finding
\* the destination absent or different from the source has written the
\* destination once, and it then holds the source's content; a sync call that
\* follows a sync call that returned, with neither file touched in between,
\* writes nothing and leaves the destination as it is.
C11_SyncWritesOnce ==
    [][SyncCall =>
         /\ (~fileOp'.raised /\ fileOp.dst # fileOp.src) =>
               (fileOp'.writes = fileOp.writes + 1 /\ fileOp'.dst = fileOp.src)
         /\ fileOp.streak >= 1 =>
               (fileOp'.writes = fileOp.writes /\ fileOp'.dst = fileOp.dst
                /\ ~fileOp'.raised)]_vars

\* two sync calls in a row have returned and the destination was written once
C11_Witness ==
    /\ fileOp.pos = "ready"
    /\ fileOp.streak = 2 /\ fileOp.calls = 2 /\ fileOp.writes = 1
    /\ fileOp.dst = fileOp.src

\* C12: the executor that handle_file reaches (line 88) dispatches each of the
\* kinds copy, move and sync to its operation: no call made with one of these
\* kinds ends as a kind the executor does not know.
C12_WatcherExecutorDispatches ==
    operation \in {"copy", "move", "sync"} =>
        \A t \in Threads : opres[t] # "unsupported"

\* a job main() can use: both folders are named and the strategy is registered
ValidJob(j) ==
    j.watch_folder # "" /\ j.destination_folder # "" /\ j.strategy \in Strategies

\* C13: when main() has gone through the job list, nothing was started for a
\* job that lacks a folder or names an unknown strategy, and every other job
\* of the list, before or after it, has its Watcher constructed and observing.
C13_InvalidJobSkippedOthersStart ==
    (runner.pos \in {"serve", "exited"} /\ runner.jobs # <<>>) =>
        \A k \in DOMAIN runner.jobs :
            /\ k \in DOMAIN runner.started
            /\ runner.started[k].made = ValidJob(runner.jobs[k])
            /\ runner.started[k].observing = ValidJob(runner.jobs[k])

\* the list's first job names an unknown strategy, its last job is usable and
\* is being observed
C13_Witness ==
    /\ runner.pos = "serve"
    /\ Len(runner.jobs) >= 2
    /\ runner.jobs[1].strategy = "bogus" /\ ~fields_missing(runner.jobs[1])
    /\ ValidJob(runner.jobs[Len(runner.jobs)])
    /\ ~runner.started[1].made
    /\ runner.started[Len(runner.jobs)].observing

\* C20: once main() has gone through the job list, the Watcher of every usable
\* job is Running with both producers (the observer delivers creation events
\* and the periodic scan has been spawned) and works with the job's operation
\* kind and scan interval.
C20_RunnerStartsBothProducers ==
    runner.pos = "serve" =>
        \A k \in DOMAIN runner.jobs :
            ValidJob(runner.jobs[k]) =>
                /\ runner.started[k].observing
                /\ runner.started[k].scanning
                /\ runner.started[k].operation = runner.jobs[k].operation
                /\ runner.started[k].scan_interval = runner.jobs[k].scan_interval

\* C14: with the generic strategy, every call of build_destination_path made
\* by handle_file (line 75) succeeds: it does not raise and does not return
\* None, and its result is the destination root joined with the base name of
\* the source path, whatever the file holds.
C14_GenericBuildSucceeds ==
    [][\A t \in Threads :
          (strategy = "default" /\ pc[t] = "hf_build" /\ StepOf(t)) =>
              /\ pc'[t] = "hf_dedup"
              /\ dest_path'[t] = path_join(destination_folder, basename(PathOf(t)))]_vars

\* the first of the calls 1..max_retries for which ok holds, 0 when there is none
FirstOf(ok) == IF ok = {} THEN 0 ELSE CHOOSE k \in ok : \A j \in ok : k <= j

\* C15: a call through the retry wrapper makes at most 3 attempts, stops at
\* the first attempt that does not fail and returns its result, and sleeps
\* 5^k seconds after failed attempt k only when another attempt follows: one
\* sleep fewer than attempts, 1 then 5.
C15_RetryPolicy ==
    retryRun.pos = "done" =>
        LET first == FirstOf({k \in 1..max_retries : retryRun.results[k].kind # "raise"})
        IN  /\ retryRun.calls <= 3
            /\ first # 0 => (retryRun.calls = first /\ retryRun.out = retryRun.results[first])
            /\ first = 0 => retryRun.calls = 3
            /\ retryRun.slept = [k \in 1..(retryRun.calls - 1) |-> pow(5, k - 1)]

\* C16: when every attempt failed, what the wrapper hands to its caller is not
\* something a successful attempt can hand back (a value, or None).
C16_ExhaustionDistinguishable ==
    (retryRun.pos = "done" /\ retryRun.exhausted) =>
        retryRun.out.kind \notin {"none", "value"}

\* C17: when the decoder fails on a file, the extractor is attempted again, up
\* to 3 attempts: the attempts made are those up to the first at which the
\* decoder does not fail, all 3 when it fails each time.
C17_DecoderFailureRetried ==
    (retryRun.pos = "done" /\ retryRun.wrapped = "extractor") =>
        LET first == FirstOf({k \in 1..max_retries : retryRun.decoder[k] # "absent"})
        IN  retryRun.calls = IF first = 0 THEN 3 ELSE first

\* the scan thread calls handle_file (line 133)
ScanSubmits == pc["scan"] = "scan_loop" /\ pc'["scan"] = "hf_entry"

\* C18: the periodic scan calls handle_file only for a file its walk listed
\* that, when the scan looks at it, is not in unsupported_files, ends with one
\* of the allowed extensions (or the allow-list is empty) and is not in
\* processed_files; what it passes is never a directory, and the call starts
\* at the same first statement of handle_file as a live event's.  Every file
\* of the walk that meets the three conditions is passed on.
C18_ScanSubmitsOnlyEligible ==
    /\ [][ScanSubmits =>
             LET e == ev'["scan"]
             IN  /\ ~e.is_directory
                 /\ e.src_path \in scanTodo
                 /\ e.src_path \notin unsupported_files
                 /\ e.src_path \notin processed_files
                 /\ \/ file_types = <<>>
                    \/ \E i \in 1..Len(file_types) : endswith(e.src_path, file_types[i])]_vars
    /\ [][\A f \in Files :
             (/\ pc["scan"] = "scan_loop" /\ f \in scanTodo /\ f \notin scanTodo'
              /\ f \notin unsupported_files /\ f \notin processed_files
              /\ \/ file_types = <<>>
                 \/ \E i \in 1..Len(file_types) : endswith(f, file_types[i]))
             => (ScanSubmits /\ ev'["scan"] = Event(f, FALSE))]_vars

\* the scan has passed over w/b.txt, which the allow-list excludes, and calls
\* handle_file for w/a.JPG
C18_Witness ==
    /\ pc["scan"] = "hf_entry" /\ attempt["scan"] = 0
    /\ PathOf("scan") = FILE_PHOTO
    /\ file_types # <<>> /\ ~any_endswith(FILE_TEXT)
    /\ tree[FILE_TEXT] # "absent" /\ FILE_TEXT \notin scanTodo
    /\ FILE_TEXT \notin unsupported_files

\* the file ends with an allowed extension, or every extension is allowed
PassesFilter(f) ==
    file_types = <<>> \/ \E i \in 1..Len(file_types) : endswith(f, file_types[i])

\* the strategy builds a path for the file as it is, and the executor returns
\* to handle_file
StrategyAndExecutorSucceed(f) ==
    /\ namesBound
    /\ strategy = "photo" => tree[f] = "dated"

\* handle_file is running for f in the scan thread, or has filed f
HandledByScan(f) ==
    \/ pc["scan"] \in {"hf_entry", "hf_drive", "hf_build", "hf_dedup", "hf_exec",
                      "hf_mark", "hf_raise", "hf_return"} /\ PathOf("scan") = f
    \/ f \in processed_files
    \/ f \in unsupported_files

\* C19: with the Watcher Running and no creation event delivered, a file that
\* is in the watch folder and passes the filter is eventually handled by the
\* periodic scan; and if the destination is there from some time on and the
\* strategy and the executor succeed for the file, it eventually is in
\* processed_files.
C19_ScanBackstop ==
    \A f \in Files :
        /\ (wstate = "Running" /\ tree[f] # "absent" /\ PassesFilter(f))
              ~> HandledByScan(f)
        /\ <>[]drive =>
              ((wstate = "Running" /\ tree[f] # "absent" /\ PassesFilter(f)
                /\ StrategyAndExecutorSucceed(f)) ~> f \in processed_files)

\* a file the observer missed after the start has been marked by the scan
C19_Witness ==
    /\ wstate = "Running" /\ pending = {}
    /\ pc["scan"] = "hf_return" /\ ret["scan"] = "marked"
    /\ PathOf("scan") = FILE_PHOTO /\ FILE_PHOTO \in processed_files
    /\ opres["scan"] = "ok"

\* C21: processed_files and unsupported_files only grow: no step of the
\* Watcher (handle_file, on_created, the scan loop, start_watching,
\* stop_watching) takes a path out of either set.
C21_SetsOnlyGrow ==
    [][/\ processed_files \subseteq processed_files'
       /\ unsupported_files \subseteq unsupported_files']_vars

\* both files have been filed, one after the other
C21_Witness ==
    /\ Cardinality(processed_files \cup unsupported_files) = 2
    /\ processed_files # {}

\* C22: main() ends at startup when no job is usable: it reaches its
\* wait-for-interrupt loop only if at least one job of the list is valid.
C22_NoValidJobTerminates ==
    runner.pos = "serve" => \E k \in DOMAIN runner.jobs : ValidJob(runner.jobs[k])

====
